---- MODULE Spec2Model ----
(***************************************************************************)
(* A model of the pymolr generator (scripts/pymol_dump.py) and of the      *)
(* XML-RPC dispatch server (inst/extdata/pymol_xmlrpcserver.py).           *)
(*                                                                         *)
(* Python strings are TLA+ strings; the character at position i of s is    *)
(* SubSeq(s, i, i).  Python values (default values, RPC parameters and     *)
(* results) are tagged records [t |-> <type>, v |-> <payload>].  A dict is *)
(* the sequence of its <<key, value>> items in iteration order.  An        *)
(* optional value (None or a string) is <<>> or <<s>>.                     *)
(***************************************************************************)
EXTENDS Integers, Sequences, FiniteSets, TLC

VARIABLES fn, arg, ret,
          pc, keywords, help_only, pymol_helping, cmds, todo, methods, man, stdout,
          request, reply, invoked

genVars == <<fn, arg, ret>>
dumpVars == <<pc, keywords, help_only, pymol_helping, cmds, todo, methods, man, stdout>>
rpcVars == <<request, reply, invoked>>
vars == <<fn, arg, ret, pc, keywords, help_only, pymol_helping, cmds, todo, methods,
          man, stdout, request, reply, invoked>>

(***************************************************************************)
(* Bounds of the model.                                                    *)
(***************************************************************************)
MaxElems == 2
MaxParams == 3
MaxDocLines == 4
MaxArgLines == 4
MaxRdSections == 2
MaxCmds == 2
MaxRpcParams == 2

(***************************************************************************)
(* Python string primitives.                                               *)
(***************************************************************************)
\* s[i:i+1] with i counted from 1: the empty string outside the string
Ch(s, i) == IF i >= 1 /\ i <= Len(s) THEN SubSeq(s, i, i) ELSE ""

Lower == "abcdefghijklmnopqrstuvwxyz"
Upper == "ABCDEFGHIJKLMNOPQRSTUVWXYZ"
Digits == "0123456789"

CharsOf(s) == {Ch(s, i) : i \in 1..Len(s)}

\* \w of the re module (no LOCALE, no UNICODE): [a-zA-Z0-9_]
WordChars == CharsOf(Lower) \cup CharsOf(Upper) \cup CharsOf(Digits) \cup {"_"}

\* \s of the re module and the characters str.lstrip() removes
\* (the vertical tab has no TLA+ spelling and is left out)
Whitespace == {" ", "\t", "\n", "\r", "\f"}

\* the character ` (a TLA+ string cannot hold it alone)
Backtick == SubSeq("`'", 1, 1)

None == <<>>
Some(x) == <<x>>

startswith(s, prefix) ==
    /\ Len(prefix) <= Len(s)
    /\ SubSeq(s, 1, Len(prefix)) = prefix

Min(S) == CHOOSE x \in S : \A y \in S : x <= y
Max(S) == CHOOSE x \in S : \A y \in S : y <= x

\* "".join(parts)
RECURSIVE catRange(_, _, _)
catRange(parts, lo, hi) ==
    IF lo > hi THEN ""
    ELSE IF lo = hi THEN parts[lo]
    ELSE catRange(parts, lo, (lo + hi) \div 2) \o catRange(parts, (lo + hi) \div 2 + 1, hi)

cat(parts) == catRange(parts, 1, Len(parts))

\* sep.join(parts)
join(sep, parts) ==
    cat([i \in 1..Len(parts) |-> IF i = 1 THEN parts[i] ELSE sep \o parts[i]])

\* index of the first occurrence of sep in s at or after position i, 0 if none
find(s, sep, i) ==
    LET hits == {j \in i..(Len(s) - Len(sep) + 1) : SubSeq(s, j, j + Len(sep) - 1) = sep}
    IN  IF hits = {} THEN 0 ELSE Min(hits)

\* the part of s from position i on
rest(s, i) == SubSeq(s, i, Len(s))

\* first position from i on whose character is not in class (Len(s) + 1 if none)
span(s, i, class) ==
    Min({j \in i..Len(s) : Ch(s, j) \notin class} \cup {Len(s) + 1})

\* str.split(sep): leftmost, non-overlapping separators
RECURSIVE split(_, _)
split(s, sep) ==
    LET i == find(s, sep, 1)
    IN  IF i = 0 THEN <<s>>
        ELSE <<SubSeq(s, 1, i - 1)>> \o split(rest(s, i + Len(sep)), sep)

lstrip(s) == rest(s, span(s, 1, Whitespace))

rstrip(s) == SubSeq(s, 1, Max({j \in 1..Len(s) : Ch(s, j) \notin Whitespace} \cup {0}))

strip(s) == rstrip(lstrip(s))

\* position of character c in alphabet, 0 if absent
RECURSIVE indexIn(_, _, _)
indexIn(c, alphabet, i) ==
    IF i > Len(alphabet) THEN 0
    ELSE IF Ch(alphabet, i) = c THEN i
    ELSE indexIn(c, alphabet, i + 1)

upperCh(c) == LET i == indexIn(c, Lower, 1) IN IF i = 0 THEN c ELSE Ch(Upper, i)
lowerCh(c) == LET i == indexIn(c, Upper, 1) IN IF i = 0 THEN c ELSE Ch(Lower, i)
isCased(c) == indexIn(c, Lower, 1) # 0 \/ indexIn(c, Upper, 1) # 0

\* str.title(): a cased character that follows an uncased one is lowercased,
\* every other cased character is uppercased
title(s) ==
    cat([i \in 1..Len(s) |->
            IF isCased(Ch(s, i - 1)) THEN lowerCh(Ch(s, i)) ELSE upperCh(Ch(s, i))])

RECURSIVE natStr(_)
natStr(n) ==
    IF n < 10 THEN Ch(Digits, n + 1)
    ELSE natStr(n \div 10) \o Ch(Digits, (n % 10) + 1)

intStr(n) == IF n < 0 THEN "-" \o natStr(0 - n) ELSE natStr(n)

contains(s, sub) == find(s, sub, 1) # 0

\* repr() of a str: single quotes unless the string holds a single quote and
\* no double quote; the quote, the backslash and the control characters are escaped
reprBody(s, quote) ==
    cat([i \in 1..Len(s) |->
            LET c == Ch(s, i)
            IN  IF c = "\\" THEN "\\\\"
                ELSE IF c = quote THEN "\\" \o quote
                ELSE IF c = "\n" THEN "\\n"
                ELSE IF c = "\t" THEN "\\t"
                ELSE IF c = "\r" THEN "\\r"
                ELSE c])

reprStr(s) ==
    LET quote == IF contains(s, "'") /\ ~contains(s, "\"") THEN "\"" ELSE "'"
    IN  quote \o reprBody(s, quote) \o quote

(***************************************************************************)
(* Python values.                                                          *)
(***************************************************************************)
PyInt(n) == [t |-> "int", v |-> n]
PyStr(s) == [t |-> "str", v |-> s]
PyBool(b) == [t |-> "bool", v |-> b]
PyNone == [t |-> "none", v |-> 0]
PyList(xs) == [t |-> "list", v |-> xs]
PyTuple(xs) == [t |-> "tuple", v |-> xs]
PyDict(items) == [t |-> "dict", v |-> items]

\* repr() of a value that is neither a sequence, a dict nor None
repr(x) ==
    IF x.t = "int" THEN intStr(x.v)
    ELSE IF x.t = "bool" THEN (IF x.v THEN "True" ELSE "False")
    ELSE reprStr(x.v)

\* str() of a dict key, as "{}".format(n) renders it
str(x) == IF x.t = "str" THEN x.v ELSE repr(x)

RECURSIVE to_r(_)
\* a plausible slip: the elements of a vector joined by "," and not ", "
to_r_tight(x) ==
    IF x.t \in {"list", "tuple"}
    THEN "c(" \o join(",", [i \in 1..Len(x.v) |-> to_r(x.v[i])]) \o ")"
    ELSE IF x.t = "dict"
    THEN "list(" \o join(", ", [i \in 1..Len(x.v) |->
                     Backtick \o str(x.v[i][1]) \o Backtick \o "=" \o to_r(x.v[i][2])]) \o ")"
    ELSE IF x.t = "none" THEN "NULL"
    ELSE repr(x)

to_r(x) ==
    IF x.t \in {"list", "tuple"}
    THEN "c(" \o join(", ", [i \in 1..Len(x.v) |-> to_r(x.v[i])]) \o ")"
    ELSE IF x.t = "dict"
    THEN "list(" \o join(", ", [i \in 1..Len(x.v) |->
                     Backtick \o str(x.v[i][1]) \o Backtick \o "=" \o to_r(x.v[i][2])]) \o ")"
    ELSE IF x.t = "none" THEN "NULL"
    ELSE repr(x)

(***************************************************************************)
(* scripts/pymol_dump.py: escaping helpers.                                *)
(***************************************************************************)
isWord(s, i) == Ch(s, i) \in WordChars

\* re.sub(r"\bfunction\b", ".function", str)
escape_keywords(s) ==
    LET starts == {i \in 1..Len(s) : /\ SubSeq(s, i, Min({i + 7, Len(s)})) = "function"
                                     /\ ~isWord(s, i - 1)
                                     /\ ~isWord(s, i + 8)}
    IN  cat([j \in 1..Len(s) |->
                IF j \in starts THEN ".function"
                ELSE IF \E i \in starts : i < j /\ j <= i + 7 THEN ""
                ELSE Ch(s, j)])

\* re.sub(r"(?<!\\)'", r"\\'", string): the lookbehind reads the original string
escape_quotes(s) ==
    cat([i \in 1..Len(s) |->
            IF Ch(s, i) = "'" /\ Ch(s, i - 1) # "\\" THEN "\\'" ELSE Ch(s, i)])

\* re.sub(r"(?<!\\)([{}])", r"\\\1", string)
escape_braces(s) ==
    cat([i \in 1..Len(s) |->
            IF Ch(s, i) \in {"{", "}"} /\ Ch(s, i - 1) # "\\"
            THEN "\\" \o Ch(s, i)
            ELSE Ch(s, i)])

escape_args_rd(args) ==
    [i \in 1..Len(args) |-> IF args[i] = "..." THEN "\\dots" ELSE args[i]]

RECURSIVE dropLeadingBlank(_)
dropLeadingBlank(lines) ==
    IF Len(lines) > 0 /\ lines[1] = "" THEN dropLeadingBlank(Tail(lines)) ELSE lines

RECURSIVE dropTrailingBlank(_)
dropTrailingBlank(lines) ==
    IF Len(lines) > 0 /\ lines[Len(lines)] = ""
    THEN dropTrailingBlank(SubSeq(lines, 1, Len(lines) - 1))
    ELSE lines

strip_blank(lines) == dropTrailingBlank(dropLeadingBlank(lines))

(***************************************************************************)
(* collections.OrderedDict, as the sequence of its <<key, value>> items.   *)
(***************************************************************************)
odKeys(od) == [i \in 1..Len(od) |-> od[i][1]]
odHas(od, k) == \E i \in 1..Len(od) : od[i][1] = k
odGet(od, k) == od[CHOOSE i \in 1..Len(od) : od[i][1] = k][2]

\* a plausible slip: a key assigned again moves to the end
odSetMoveToEnd(od, k, val) ==
    SelectSeq(od, LAMBDA item : item[1] # k) \o <<(<<k, val>>)>>

\* d[k] = val: a new key goes last, a key assigned again keeps its place
odSet(od, k, val) ==
    IF odHas(od, k)
    THEN [i \in 1..Len(od) |-> IF od[i][1] = k THEN <<k, val>> ELSE od[i]]
    ELSE Append(od, <<k, val>>)

(***************************************************************************)
(* docstring_sections                                                      *)
(***************************************************************************)
\* re.match(r"^[^ ].*$", line), line holding no newline
isHeading(line) == line # "" /\ Ch(line, 1) # " "

\* the loop of docstring_sections: the list of Section(heading, lines)
RECURSIVE scanLines(_, _)
scanLines(lines, sections) ==
    IF lines = <<>> THEN sections
    ELSE LET line == Head(lines)
             n == Len(sections)
         IN  IF n = 0 /\ line = "" THEN scanLines(Tail(lines), sections)
             ELSE IF isHeading(line)
             THEN scanLines(Tail(lines),
                            Append(sections, [heading |-> Some(line), lines |-> <<>>]))
             ELSE LET opened == IF n = 0
                                THEN <<[heading |-> None, lines |-> <<>>]>>
                                ELSE sections
                      m == Len(opened)
                  IN  scanLines(Tail(lines),
                                [opened EXCEPT ![m].lines =
                                     Append(@, escape_braces(lstrip(line)))])

sectionList(docstring) == scanLines(split(docstring, "\n"), <<>>)

RECURSIVE toOrderedDict(_, _)
toOrderedDict(sections, od) ==
    IF sections = <<>> THEN od
    ELSE toOrderedDict(Tail(sections),
                       odSet(od, Head(sections).heading, Head(sections).lines))

docstring_sections(docstring) == toOrderedDict(sectionList(docstring), <<>>)

(***************************************************************************)
(* ARG_REGEXES.  Each pattern is anchored and every repetition in it is    *)
(* followed by a character outside its class, so a match is one            *)
(* left-to-right scan.  A match is <<[arg, desc]>>, no match is <<>>.      *)
(***************************************************************************)
\* ^(?P<arg>\w+)\s+=\s+(?P<type>\w+):\s(?P<desc>.*)$
argTyped(s) ==
    LET a == span(s, 1, WordChars)
        b == span(s, a, Whitespace)
        c == span(s, b + 1, Whitespace)
        d == span(s, c, WordChars)
    IN  IF /\ a > 1
           /\ b > a
           /\ Ch(s, b) = "="
           /\ c > b + 1
           /\ d > c
           /\ Ch(s, d) = ":"
           /\ d + 1 <= Len(s)
           /\ Ch(s, d + 1) \in Whitespace
        THEN <<[arg |-> SubSeq(s, 1, a - 1), desc |-> rest(s, d + 2)]>>
        ELSE <<>>

\* ^(?P<arg>\w+)\s+=\s+(?P<desc>\S.*)$
argUntyped(s) ==
    LET a == span(s, 1, WordChars)
        b == span(s, a, Whitespace)
        c == span(s, b + 1, Whitespace)
    IN  IF /\ a > 1
           /\ b > a
           /\ Ch(s, b) = "="
           /\ c > b + 1
           /\ c <= Len(s)
        THEN <<[arg |-> SubSeq(s, 1, a - 1), desc |-> rest(s, c)]>>
        ELSE <<>>

\* ^(?P<arg>\w+)\s+(?P<range>[<>]\s+\d+):?\s+(?P<desc>\S.*)$
argRange(s) ==
    LET a == span(s, 1, WordChars)
        b == span(s, a, Whitespace)
        c == span(s, b + 1, Whitespace)
        d == span(s, c, CharsOf(Digits))
        e == IF Ch(s, d) = ":" THEN d + 1 ELSE d
        f == span(s, e, Whitespace)
    IN  IF /\ a > 1
           /\ b > a
           /\ Ch(s, b) \in {"<", ">"}
           /\ c > b + 1
           /\ d > c
           /\ f > e
           /\ f <= Len(s)
        THEN <<[arg |-> SubSeq(s, 1, a - 1), desc |-> rest(s, f)]>>
        ELSE <<>>

\* the inner loop over ARG_REGEXES: the first pattern that matches
ARG_REGEXES(s) ==
    IF argTyped(s) # <<>> THEN argTyped(s)
    ELSE IF argUntyped(s) # <<>> THEN argUntyped(s)
    ELSE argRange(s)

argItem(argument_spec) ==
    LET arg_match == ARG_REGEXES(argument_spec)
    IN  IF arg_match = <<>>
        THEN "\\item{Extra (from PyMol help text)}{" \o argument_spec \o "}"
        ELSE "\\item{" \o arg_match[1].arg \o "}{" \o arg_match[1].desc \o "}"

\* re.split(r",\s*", s)
RECURSIVE reSplitComma(_)
reSplitComma(s) ==
    LET i == find(s, ",", 1)
    IN  IF i = 0 THEN <<s>>
        ELSE <<SubSeq(s, 1, i - 1)>> \o reSplitComma(rest(s, span(s, i + 1, Whitespace)))

seeAlsoItems(lines) ==
    LET names == SelectSeq(reSplitComma(join(", ", lines)), LAMBDA a : a # "")
    IN  [i \in 1..Len(names) |-> "\\item \\code{\\link{Pymol$" \o names[i] \o "}}"]

(***************************************************************************)
(* docstring_to_rd                                                         *)
(***************************************************************************)
DESCRIPTION_TEMPLATE(description) == "\\description{\n" \o description \o "\n}\n"

USAGE_TEMPLATE(name, args) ==
    "\\usage{\npymol <- new(\"Pymol\")\npymol$" \o name \o "(" \o args \o ")\n}\n"

NOTE_TEMPLATE(note) == "\\note{\n" \o note \o "\n}\n"

ignored_sections == <<"DESCRIPTION", "USAGE", "PYMOL API", "EXAMPLE">>

\* a plausible slip: only the headings that are exactly in the ignore-set are skipped
isIgnoredExact(section) ==
    \E i \in 1..Len(ignored_sections) : section = ignored_sections[i]

\* any(section.startswith(x) for x in ignored_sections)
isIgnored(section) ==
    \E i \in 1..Len(ignored_sections) : startswith(section, ignored_sections[i])

\* a plausible slip: an arguments body split on single newlines
argumentsBlockPerLine(lines) ==
    LET argument_lines == split(join("\n", lines), "\n")
    IN  <<"\\arguments{">>
        \o [i \in 1..Len(argument_lines) |-> argItem(argument_lines[i])]
        \o <<"}">>

argumentsBlock(lines) ==
    LET argument_lines == split(join("\n", lines), "\n\n")
    IN  <<"\\arguments{">>
        \o [i \in 1..Len(argument_lines) |-> argItem(argument_lines[i])]
        \o <<"}">>

\* the lines one item of sections.iteritems() adds to out_rd
sectionBlock(heading, lines0) ==
    LET lines == strip_blank(lines0)
    IN  IF Len(lines) = 0 THEN <<>>
        ELSE IF heading = Some("NOTES") THEN <<NOTE_TEMPLATE(join("\n", lines))>>
        ELSE IF heading = Some("ARGUMENTS") THEN argumentsBlock(lines)
        ELSE IF heading = Some("SEE ALSO")
        THEN <<"\\seealso{", "\\itemize{">> \o seeAlsoItems(lines) \o <<"}", "}">>
        ELSE LET section == IF heading = None THEN "Introduction" ELSE heading[1]
             IN  IF isIgnored(section) THEN <<>>
                 ELSE <<"\\section{" \o title(strip(section)) \o "}{">>
                      \o lines \o <<"}">>

RECURSIVE sectionBlocks(_)
sectionBlocks(sections) ==
    IF sections = <<>> THEN <<>>
    ELSE sectionBlock(Head(sections)[1], Head(sections)[2])
         \o sectionBlocks(Tail(sections))

descriptionBlock(sections) ==
    IF odHas(sections, Some("DESCRIPTION"))
    THEN <<DESCRIPTION_TEMPLATE(
               join("\n", strip_blank(odGet(sections, Some("DESCRIPTION")))))>>
    ELSE <<"\\description{Not described by PyMol.}">>

\* out_rd, the list docstring_to_rd joins
out_rd(cmd_name, args_r, sections) ==
    <<"\\name{" \o cmd_name \o "}",
      "\\alias{Pymol$" \o cmd_name \o "}",
      "\\title{Execute PyMol '" \o cmd_name \o "' command}">>
    \o descriptionBlock(sections)
    \o <<USAGE_TEMPLATE(cmd_name, join(", ", escape_args_rd(args_r)))>>
    \o sectionBlocks(sections)

docstring_to_rd(cmd_name, args_r, sections) ==
    join("\n", out_rd(cmd_name, args_r, sections))

(***************************************************************************)
(* build_r_args.  A signature is what inspect.getargspec returns:          *)
(* [args, defaults, varargs, keywords], defaults being None or a tuple     *)
(* that belongs to the last parameters.                                    *)
(***************************************************************************)
isInternal(name) == startswith(name, "_")

\* the dict comprehension over zip(reversed(args), reversed(defaults))
kwargsOf(argspec) ==
    IF argspec.defaults = None THEN <<>>
    ELSE LET args == argspec.args
             defaults == argspec.defaults[1]
             n == IF Len(args) < Len(defaults) THEN Len(args) ELSE Len(defaults)
             pairs == [i \in 1..n |-> <<args[Len(args) + 1 - i],
                                        to_r(defaults[Len(defaults) + 1 - i])>>]
         IN  SelectSeq(pairs, LAMBDA pr : ~isInternal(pr[1]))

\* a plausible slip: one catch-all token per variadic capability
catchAllPerFlag(argspec, token) ==
    (IF argspec.varargs # None THEN <<token>> ELSE <<>>)
    \o (IF argspec.keywords # None THEN <<token>> ELSE <<>>)

catchAll(argspec, token) ==
    IF argspec.varargs # None \/ argspec.keywords # None THEN <<token>> ELSE <<>>

\* a plausible slip: the parameters with a default are left out of the call
callNamesNoDefaults(argspec) ==
    LET kwargs == kwargsOf(argspec)
        shown == SelectSeq(argspec.args,
                           LAMBDA a : ~isInternal(a) /\ ~odHas(kwargs, a))
    IN  [i \in 1..Len(shown) |-> escape_keywords(shown[i])]

callNames(argspec) ==
    LET shown == SelectSeq(argspec.args, LAMBDA a : ~isInternal(a))
    IN  [i \in 1..Len(shown) |-> escape_keywords(shown[i])]

build_r_args(cmd_name, argspec) ==
    LET kwargs == kwargsOf(argspec)
        plain == SelectSeq(argspec.args,
                           LAMBDA a : ~isInternal(a) /\ ~odHas(kwargs, a))
        named == SelectSeq(argspec.args,
                           LAMBDA a : ~isInternal(a) /\ odHas(kwargs, a))
        withDefault == [i \in 1..Len(named) |->
                           escape_keywords(named[i]) \o "=" \o odGet(kwargs, named[i])]
    IN  [args_r |-> plain \o withDefault \o catchAll(argspec, "..."),
         call_args_r |-> <<reprStr(cmd_name)>> \o callNames(argspec)
                         \o catchAll(argspec, "list(...)")]

(***************************************************************************)
(* dump_cmds.  A callable is [id, argspec, doc]; a keyword table maps a    *)
(* command name to its callable (cmd[0]).                                  *)
(***************************************************************************)
R_METHOD_TEMPLATE(args, docstring, call_args) ==
    "function(" \o args \o ") {\n    '" \o docstring \o "'\n    .self$.rpc("
    \o call_args \o ")\n}"

R_TEMPLATE(text) == "#' @include base_pymolr.r\nBasePymol$methods(\n" \o text \o "\n)\n"

DOCSTRING_TEMPLATE(description, link) ==
    description \o "\nSee: \\\\code{\\\\link{" \o link \o "}}.\n"

python_help == "python_help"

\* the dict after the help-only keywords that are no help messages are merged in
mergeTables(kw, ho, helping) ==
    LET kept == {n \in DOMAIN ho : ho[n].id \notin helping}
    IN  [n \in DOMAIN kw \cup kept |-> IF n \in kept THEN ho[n] ELSE kw[n]]

isSkipped(cmd_name, cmd) == isInternal(cmd_name) \/ cmd.id = python_help

method_docstring(cmd_name, cmd) ==
    IF cmd.doc # None /\ odHas(docstring_sections(cmd.doc[1]), Some("DESCRIPTION"))
    THEN DOCSTRING_TEMPLATE(
             escape_quotes(strip(join("\n",
                 odGet(docstring_sections(cmd.doc[1]), Some("DESCRIPTION"))))),
             "Pymol$" \o cmd_name)
    ELSE escape_quotes("PyMol '" \o cmd_name \o "' method")

methodText(cmd_name, cmd) ==
    LET built == build_r_args(cmd_name, cmd.argspec)
    IN  cmd_name \o "="
        \o R_METHOD_TEMPLATE(join(", ", built.args_r),
                             method_docstring(cmd_name, cmd),
                             join(", ", built.call_args_r))

rdoc_file(cmd_name) == "man/Pymol-method-" \o cmd_name \o ".Rd"

\* a plausible slip: a document only for a docstring that holds text
hasDocSectionsNonEmpty(cmd) == cmd.doc # None /\ cmd.doc # Some("")

\* doc_sections is not None
hasDocSections(cmd) == cmd.doc # None

writeDoc(files, cmd_name, cmd) ==
    IF hasDocSections(cmd)
    THEN [p \in DOMAIN files \cup {rdoc_file(cmd_name)} |->
             IF p = rdoc_file(cmd_name)
             THEN docstring_to_rd(cmd_name,
                                  build_r_args(cmd_name, cmd.argspec).args_r,
                                  docstring_sections(cmd.doc[1]))
             ELSE files[p]]
    ELSE files

(***************************************************************************)
(* PymolServer._dispatch.  The pymol namespaces the server resolves a      *)
(* method name against: an attribute is [id, callable].                    *)
(***************************************************************************)
Attr(id, callable) == [id |-> id, callable |-> callable]

command_keywords == [n \in {"load"} |-> Attr("keywords.load", TRUE)]

cmd_attrs ==
    [n \in {"load", "get_names", "lock_api"} |->
        IF n = "lock_api" THEN Attr("cmd.lock_api", FALSE) ELSE Attr("cmd." \o n, TRUE)]

MODULES ==
    [m \in {"util", "preset"} |->
        IF m = "util"
        THEN [n \in {"cbc", "version"} |->
                 IF n = "cbc" THEN Attr("util.cbc", TRUE) ELSE Attr("util.version", FALSE)]
        ELSE [n \in {"simple"} |-> Attr("preset.simple", TRUE)]]

NoFunc == Attr("None", FALSE)

\* the first loop: dicts are merged into kwargs, the rest is appended to args
RECURSIVE updateAll(_, _)
updateAll(kwargs, items) ==
    IF items = <<>> THEN kwargs
    ELSE updateAll(odSet(kwargs, Head(items)[1], Head(items)[2]), Tail(items))

RECURSIVE collectKwargs(_, _)
collectKwargs(params, kwargs) ==
    IF params = <<>> THEN kwargs
    ELSE collectKwargs(Tail(params),
                       IF Head(params).t = "dict"
                       THEN updateAll(kwargs, Head(params).v)
                       ELSE kwargs)

collectArgs(params) == SelectSeq(params, LAMBDA param : param.t # "dict")

\* the if/elif chain for a name that is not module-qualified
resolvePlain(method) ==
    IF method \in DOMAIN command_keywords THEN command_keywords[method]
    ELSE IF method \in DOMAIN cmd_attrs THEN cmd_attrs[method]
    ELSE NoFunc

isQualified(method) ==
    /\ method \notin DOMAIN command_keywords
    /\ method \notin DOMAIN cmd_attrs
    /\ (startswith(method, "preset.") \/ startswith(method, "util."))

Return(value) == [kind |-> "return", exc |-> "", value |-> value]
Raise(exc, msg) == [kind |-> "raise", exc |-> exc, value |-> PyStr(msg)]
NoReply == [kind |-> "none", exc |-> "", value |-> PyNone]

(***************************************************************************)
(* Inputs.                                                                 *)
(***************************************************************************)
SeqsUpTo(S, n) == UNION {[1..k -> S] : k \in 0..n}

DistinctSeqsUpTo(S, n) ==
    {q \in SeqsUpTo(S, n) : \A i, j \in 1..Len(q) : i # j => q[i] # q[j]}

\* default values: scalars, flat containers, containers of containers
Scalars == {PyInt(1), PyInt(2), PyNone, PyStr("k")}
DictKeys == {PyStr("k"), PyStr("j"), PyInt(1)}

ContainersOver(elems) ==
    {PyList(q) : q \in SeqsUpTo(elems, MaxElems)}
    \cup {PyTuple(q) : q \in SeqsUpTo(elems, MaxElems) \ {<<>>}}
    \cup UNION {{PyDict([i \in 1..Len(ks) |-> <<ks[i], vs[i]>>]) :
                    vs \in [1..Len(ks) -> elems]} :
                ks \in DistinctSeqsUpTo(DictKeys, MaxElems)}

Nestable ==
    {PyList(<<PyInt(1), PyInt(2)>>), PyList(<<>>),
     PyDict(<<(<<PyStr("k"), PyList(<<PyInt(1), PyInt(2)>>)>>)>>)}

DefaultValues == Scalars \cup ContainersOver(Scalars \cup Nestable)

\* signatures
ParamNames == {"a", "b", "_self", "function"}
ParamDefaults == {PyInt(1), PyNone}

Argspecs ==
    UNION {{[args |-> names, defaults |-> d, varargs |-> va, keywords |-> kw] :
               d \in {None} \cup {Some(q) : q \in SeqsUpTo(ParamDefaults, Len(names))
                                                     \ {<<>>}},
               va \in {None, Some("rest")},
               kw \in {None, Some("kw")}} :
           names \in DistinctSeqsUpTo(ParamNames, MaxParams)}

CmdNames == {"load", "set_view"}

\* docstrings
DocLines == {"", "NOTES", "DESCRIPTION", " text", "\tbody", "  a {b\\}"}
Docstrings == {join("\n", q) : q \in SeqsUpTo(DocLines, MaxDocLines)}

RdHeadings == {"", "DESCRIPTION", "DESCRIPTION OF X", "NOTES", "SEE ALSO", "other notes"}
RdBodies == {"", " Does a thing.\n", "\n \\usage{zoom, orient}\n\n"}
RdSections == {IF h = "" THEN b ELSE h \o "\n" \o b : h \in RdHeadings, b \in RdBodies}
RdDocstrings == {join("", q) : q \in SeqsUpTo(RdSections, MaxRdSections)}

ArgLines == {"", " x = int: the x value", " y = the y", " z < 5: zoom", " just text"}
ArgDocstrings == {"ARGUMENTS\n" \o join("\n", q) : q \in SeqsUpTo(ArgLines, MaxArgLines)}

RdCalls == {[cmd_name |-> "load", args_r |-> <<"a", "b=1", "...">>],
            [cmd_name |-> "zoom", args_r |-> <<>>]}

RdInputs ==
    {[cmd_name |-> c.cmd_name, args_r |-> c.args_r, docstring |-> d] :
        c \in RdCalls, d \in RdDocstrings}
    \cup {[cmd_name |-> "load", args_r |-> <<"x">>, docstring |-> d] : d \in ArgDocstrings}

\* the command tables of a generation run
Sig(args, defaults, va, kw) ==
    [args |-> args, defaults |-> defaults, varargs |-> va, keywords |-> kw]

f_load ==
    [id |-> "load",
     argspec |-> Sig(<<"x", "_self">>, Some(<<PyNone>>), None, None),
     doc |-> Some("\nDESCRIPTION\n\n    Does a thing.\n\nARGUMENTS\n\n    x = int: the x value\n")]

f_zoom ==
    [id |-> "zoom",
     argspec |-> Sig(<<"a", "b">>, Some(<<PyInt(1)>>), Some("rest"), None),
     doc |-> None]

f_blank == [id |-> "blank", argspec |-> Sig(<<>>, None, None, None), doc |-> Some("")]

f_python_help ==
    [id |-> python_help,
     argspec |-> Sig(<<>>, None, Some("arg"), None),
     doc |-> Some("DESCRIPTION\n\n    a Python keyword\n")]

f_commands ==
    [id |-> "commands",
     argspec |-> Sig(<<>>, None, None, None),
     doc |-> Some("COMMANDS\n\n    it's a list\n")]

TableNames == {"load", "_hidden", "help"}
KeywordCallables == {f_load, f_zoom, f_blank, f_python_help, f_commands}
HelpOnlyCallables == {f_load, f_commands}

TablesOver(callables, n) ==
    UNION {[names -> callables] : names \in {S \in SUBSET TableNames : Cardinality(S) <= n}}

HelpingModules == {{"commands"}, {"commands", python_help}}

NoTable == [n \in {} |-> f_blank]
NoFiles == [p \in {} |-> ""]

\* remote calls
Methods == {"ping", "load", "get_names", "lock_api", "util.cbc", "util.version",
            "util.nope", "preset.simple", "preset.", "util.cbc.x", "nosuch"}
RpcValues == {PyInt(1), PyStr("x"),
              PyDict(<<(<<"a", PyInt(1)>>)>>),
              PyDict(<<(<<"a", PyInt(2)>>), (<<"b", PyInt(3)>>)>>)}
RpcParams == SeqsUpTo(RpcValues, MaxRpcParams)
Results == {PyNone, PyInt(0), PyList(<<>>)}

(***************************************************************************)
(* The generator's functions, each applied to one input.                   *)
(***************************************************************************)
GenIdle == fn = "idle" /\ arg = <<>> /\ ret = <<>>
DumpIdle ==
    /\ pc = "idle"
    /\ keywords = NoTable
    /\ help_only = NoTable
    /\ pymol_helping = {}
    /\ cmds = NoTable
    /\ todo = {}
    /\ methods = <<>>
    /\ man = NoFiles
    /\ stdout = ""
RpcIdle == request = <<>> /\ reply = NoReply /\ invoked = <<>>

call_to_r ==
    /\ fn = "idle"
    /\ \E x \in DefaultValues :
          /\ fn' = "to_r"
          /\ arg' = x
          /\ ret' = to_r(x)
    /\ UNCHANGED <<dumpVars, rpcVars>>

call_build_r_args ==
    /\ fn = "idle"
    /\ \E cmd_name \in CmdNames, argspec \in Argspecs :
          /\ fn' = "build_r_args"
          /\ arg' = [cmd_name |-> cmd_name, argspec |-> argspec]
          /\ ret' = build_r_args(cmd_name, argspec)
    /\ UNCHANGED <<dumpVars, rpcVars>>

call_docstring_sections ==
    /\ fn = "idle"
    /\ \E docstring \in Docstrings :
          /\ fn' = "docstring_sections"
          /\ arg' = docstring
          /\ ret' = docstring_sections(docstring)
    /\ UNCHANGED <<dumpVars, rpcVars>>

call_docstring_to_rd ==
    /\ fn = "idle"
    /\ \E input \in RdInputs :
          /\ fn' = "docstring_to_rd"
          /\ arg' = [cmd_name |-> input.cmd_name, args_r |-> input.args_r,
                     sections |-> docstring_sections(input.docstring)]
          /\ ret' = docstring_to_rd(input.cmd_name, input.args_r,
                                    docstring_sections(input.docstring))
    /\ UNCHANGED <<dumpVars, rpcVars>>

return ==
    /\ fn # "idle"
    /\ fn' = "idle"
    /\ arg' = <<>>
    /\ ret' = <<>>
    /\ UNCHANGED <<dumpVars, rpcVars>>

InitGen == GenIdle /\ DumpIdle /\ RpcIdle

NextGen ==
    \/ call_to_r
    \/ call_build_r_args
    \/ call_docstring_sections
    \/ call_docstring_to_rd
    \/ return

SpecGen == InitGen /\ [][NextGen]_vars

(***************************************************************************)
(* dump_cmds: the merge of the tables, one step per command, the print.    *)
(***************************************************************************)
InitDump ==
    /\ GenIdle
    /\ RpcIdle
    /\ pc = "start"
    /\ keywords \in TablesOver(KeywordCallables, MaxCmds)
    /\ help_only \in TablesOver(HelpOnlyCallables, 1)
    /\ pymol_helping \in HelpingModules
    /\ cmds = NoTable
    /\ todo = {}
    /\ methods = <<>>
    /\ man = NoFiles
    /\ stdout = ""

dump_cmds_merge ==
    /\ pc = "start"
    /\ cmds' = mergeTables(keywords, help_only, pymol_helping)
    /\ todo' = DOMAIN cmds'
    /\ pc' = "loop"
    /\ UNCHANGED <<keywords, help_only, pymol_helping, methods, man, stdout,
                   genVars, rpcVars>>

dump_cmds_command ==
    /\ pc = "loop"
    /\ \E cmd_name \in todo :
          /\ todo' = todo \ {cmd_name}
          /\ IF isSkipped(cmd_name, cmds[cmd_name])
             THEN UNCHANGED <<methods, man>>
             ELSE /\ methods' = Append(methods, methodText(cmd_name, cmds[cmd_name]))
                  /\ man' = writeDoc(man, cmd_name, cmds[cmd_name])
    /\ UNCHANGED <<pc, keywords, help_only, pymol_helping, cmds, stdout,
                   genVars, rpcVars>>

dump_cmds_print ==
    /\ pc = "loop"
    /\ todo = {}
    /\ stdout' = R_TEMPLATE(join(",\n", methods)) \o "\n"
    /\ pc' = "done"
    /\ UNCHANGED <<keywords, help_only, pymol_helping, cmds, todo, methods, man,
                   genVars, rpcVars>>

NextDump == dump_cmds_merge \/ dump_cmds_command \/ dump_cmds_print

SpecDump == InitDump /\ [][NextDump]_vars

(***************************************************************************)
(* The server: one _dispatch per remote call.                              *)
(***************************************************************************)
\* the reply to one call and the functions it invoked; result is what the
\* resolved function returns
respond(func, method, params, result) ==
    IF ~func.callable
    THEN [reply |-> Raise("ValueError", method \o " is not callable"), invoked |-> <<>>]
    ELSE [reply |-> Return(IF result.t = "none" THEN PyInt(-1) ELSE result),
          invoked |-> <<[func |-> func.id,
                         args |-> collectArgs(params),
                         kwargs |-> collectKwargs(params, <<>>),
                         result |-> result]>>]

dispatch(method, params, result) ==
    IF method = "ping"
    THEN [reply |-> Return(PyStr("pong")), invoked |-> <<>>]
    ELSE IF isQualified(method)
    THEN LET parts == split(method, ".")
         IN  IF Len(parts) # 2
             THEN [reply |-> Raise("ValueError", "too many values to unpack"),
                   invoked |-> <<>>]
             ELSE respond(IF /\ parts[1] \in DOMAIN MODULES
                             /\ parts[2] \in DOMAIN MODULES[parts[1]]
                          THEN MODULES[parts[1]][parts[2]]
                          ELSE NoFunc,
                          method, params, result)
    ELSE respond(resolvePlain(method), method, params, result)

\* a remote call arrives
receive ==
    /\ request = <<>>
    /\ \E method \in Methods, params \in RpcParams :
          request' = Some([method |-> method, params |-> params])
    /\ UNCHANGED <<reply, invoked, genVars, dumpVars>>

_dispatch ==
    /\ request # <<>>
    /\ reply.kind = "none"
    /\ \E result \in Results :
          /\ reply' = dispatch(request[1].method, request[1].params, result).reply
          /\ invoked' = dispatch(request[1].method, request[1].params, result).invoked
    /\ UNCHANGED <<request, genVars, dumpVars>>

\* the reply (a result or a fault) is sent and the server waits for the next call
send ==
    /\ reply.kind # "none"
    /\ request' = <<>>
    /\ reply' = NoReply
    /\ invoked' = <<>>
    /\ UNCHANGED <<genVars, dumpVars>>

InitRpc == GenIdle /\ DumpIdle /\ RpcIdle

NextRpc == receive \/ _dispatch \/ send

SpecRpc == InitRpc /\ [][NextRpc]_vars

(***************************************************************************)
(* Properties.                                                             *)
(***************************************************************************)
\* number of non-overlapping occurrences of sub in s, scanning from position i
RECURSIVE countFrom(_, _, _)
countFrom(s, sub, i) ==
    LET j == find(s, sub, i)
    IN  IF j = 0 THEN 0 ELSE 1 + countFrom(s, sub, j + Len(sub))

count(s, sub) == countFrom(s, sub, 1)

endswith(s, suffix) ==
    /\ Len(suffix) <= Len(s)
    /\ SubSeq(s, Len(s) - Len(suffix) + 1, Len(s)) = suffix

\* C1: docstring_sections returns one entry per distinct heading, the keys in
\* the order in which each heading first appears, and under a heading that
\* occurs more than once the lines of its last occurrence only.
C1_OneEntryPerHeading ==
    fn = "docstring_sections" =>
        LET secs == sectionList(arg)
            occursAt(h) == {k \in 1..Len(secs) : secs[k].heading = h}
            first(h) == CHOOSE k \in occursAt(h) : \A m \in occursAt(h) : k <= m
            last(h) == CHOOSE k \in occursAt(h) : \A m \in occursAt(h) : m <= k
        IN  /\ \A i, j \in 1..Len(ret) : i # j => ret[i][1] # ret[j][1]
            /\ {ret[i][1] : i \in 1..Len(ret)} = {secs[k].heading : k \in 1..Len(secs)}
            /\ \A i, j \in 1..Len(ret) : i < j => first(ret[i][1]) < first(ret[j][1])
            /\ \A i \in 1..Len(ret) : ret[i][2] = secs[last(ret[i][1])].lines

\* a heading occurs twice with different lines, another heading in between
C1_Witness ==
    /\ fn = "docstring_sections"
    /\ LET secs == sectionList(arg)
       IN  \E i, j, k \in 1..Len(secs) :
              /\ i < j
              /\ j < k
              /\ secs[i].heading = secs[k].heading
              /\ secs[j].heading # secs[i].heading
              /\ secs[i].lines # secs[k].lines
              /\ secs[i].lines # <<>>

\* the parse the claim C8 describes: a line is a heading iff it is non-empty
\* and its first character is no whitespace
RECURSIVE C8_claimedScan(_, _)
C8_claimedScan(lines, sections) ==
    IF lines = <<>> THEN sections
    ELSE LET line == Head(lines)
             n == Len(sections)
         IN  IF n = 0 /\ line = "" THEN C8_claimedScan(Tail(lines), sections)
             ELSE IF line # "" /\ Ch(line, 1) \notin Whitespace
             THEN C8_claimedScan(Tail(lines),
                                 Append(sections, [heading |-> Some(line), lines |-> <<>>]))
             ELSE LET opened == IF n = 0
                                THEN <<[heading |-> None, lines |-> <<>>]>>
                                ELSE sections
                  IN  C8_claimedScan(Tail(lines),
                                     [opened EXCEPT ![Len(opened)].lines =
                                          Append(@, escape_braces(lstrip(line)))])

\* C8: in docstring_sections a line that is not a skipped leading blank line
\* opens a section iff it is non-empty and starts with a non-whitespace
\* character (no space, no tab); every other line is a body line, left-trimmed
\* and brace-escaped, of the latest section, an unnamed one being opened first
\* if there is none.
C8_HeadingIffNonWhitespace ==
    fn = "docstring_sections" =>
        sectionList(arg) = C8_claimedScan(split(arg, "\n"), <<>>)

\* the signature of a build_r_args call, read by position: the defaults
\* belong to the last parameters
sigNames(spec) == spec.args
sigDefaultCount(spec) == IF spec.defaults = None THEN 0 ELSE Len(spec.defaults[1])
sigHasDefault(spec, i) == i > Len(spec.args) - sigDefaultCount(spec)
sigDefault(spec, i) == spec.defaults[1][i - (Len(spec.args) - sigDefaultCount(spec))]
sigVariadic(spec) == spec.varargs # None \/ spec.keywords # None

\* the positions of the parameters that are shown, in original order
indices(spec) == [i \in 1..Len(spec.args) |-> i]
plainPositions(spec) ==
    SelectSeq(indices(spec),
              LAMBDA i : Ch(spec.args[i], 1) # "_" /\ ~sigHasDefault(spec, i))
defaultPositions(spec) ==
    SelectSeq(indices(spec),
              LAMBDA i : Ch(spec.args[i], 1) # "_" /\ sigHasDefault(spec, i))
shownPositions(spec) ==
    SelectSeq(indices(spec), LAMBDA i : Ch(spec.args[i], 1) # "_")

\* the declaration list of a signature, a parameter with a default that is
\* named 'function' being declared as reserved
declarationList(spec, reserved) ==
    [k \in 1..Len(plainPositions(spec)) |-> spec.args[plainPositions(spec)[k]]]
    \o [k \in 1..Len(defaultPositions(spec)) |->
           (IF spec.args[defaultPositions(spec)[k]] = "function"
            THEN reserved
            ELSE spec.args[defaultPositions(spec)[k]])
           \o "=" \o to_r(sigDefault(spec, defaultPositions(spec)[k]))]
    \o (IF sigVariadic(spec) THEN <<"...">> ELSE <<>>)

\* C2 as stated: the declaration list is the non-internal parameters without
\* a default, then the non-internal parameters with a default, each rendered
\* as name=<to_r(default)>, then one '...' iff the signature is variadic.
C2_DeclarationListAsStated ==
    fn = "build_r_args" =>
        ret.args_r = declarationList(arg.argspec, "function")

\* C2, amended: as stated, but a parameter with a default whose name is the
\* reserved word 'function' is declared as '.function'; (a, b=1, *rest)
\* gives ['a', 'b=1', '...'].
C2_DeclarationList ==
    fn = "build_r_args" =>
        /\ ret.args_r = declarationList(arg.argspec, ".function")
        /\ arg.argspec = Sig(<<"a", "b">>, Some(<<PyInt(1)>>), Some("rest"), None)
              => ret.args_r = <<"a", "b=1", "...">>
        /\ Cardinality({k \in 1..Len(ret.args_r) : ret.args_r[k] = "..."})
              = IF sigVariadic(arg.argspec) THEN 1 ELSE 0

\* both variadic flags, a parameter 'function' with a default, an internal one
C2_Witness ==
    /\ fn = "build_r_args"
    /\ arg.argspec.varargs # None
    /\ arg.argspec.keywords # None
    /\ arg.argspec.defaults # None
    /\ \E i \in 1..Len(arg.argspec.args) :
          arg.argspec.args[i] = "function" /\ sigHasDefault(arg.argspec, i)
    /\ \E i \in 1..Len(arg.argspec.args) :
          arg.argspec.args[i] = "a" /\ ~sigHasDefault(arg.argspec, i)
    /\ Len(ret.args_r) = 3

\* C3: when no parameter is named 'function', the call-argument list is the
\* quoted command name, then the name of every non-internal parameter in
\* original order, then 'list(...)' iff the declaration list ends with '...';
\* no parameter whose name starts with '_' is in either list.
C3_CallArgumentList ==
    (fn = "build_r_args" /\ \A i \in 1..Len(arg.argspec.args) :
                                arg.argspec.args[i] # "function") =>
        LET spec == arg.argspec
            shown == shownPositions(spec)
            endsWithCatchAll == Len(ret.args_r) > 0 /\ ret.args_r[Len(ret.args_r)] = "..."
        IN  /\ ret.call_args_r =
                   <<"'" \o arg.cmd_name \o "'">>
                   \o [k \in 1..Len(shown) |-> spec.args[shown[k]]]
                   \o (IF endsWithCatchAll THEN <<"list(...)">> ELSE <<>>)
            /\ \A i \in 1..Len(spec.args) :
                  Ch(spec.args[i], 1) = "_" =>
                      /\ \A k \in 1..Len(ret.call_args_r) :
                            ret.call_args_r[k] # spec.args[i]
                      /\ \A k \in 1..Len(ret.args_r) :
                            /\ ret.args_r[k] # spec.args[i]
                            /\ ~startswith(ret.args_r[k], spec.args[i] \o "=")

\* an internal parameter with a default, a shown one with a default, varargs
C3_Witness ==
    /\ fn = "build_r_args"
    /\ arg.argspec.args = <<"a", "b", "_self">>
    /\ sigDefaultCount(arg.argspec) = 2
    /\ arg.argspec.varargs # None
    /\ Len(ret.call_args_r) = 4

\* C4: a non-internal parameter named 'function' is written '.function' in
\* the declaration list and in the call-argument list alike, with or without
\* a default.
C4_KeywordRewrittenInBothLists ==
    (fn = "build_r_args" /\ \E i \in 1..Len(arg.argspec.args) :
                                arg.argspec.args[i] = "function") =>
        /\ \E k \in 1..Len(ret.call_args_r) : ret.call_args_r[k] = ".function"
        /\ \E k \in 1..Len(ret.args_r) :
              ret.args_r[k] = ".function" \/ startswith(ret.args_r[k], ".function=")
        /\ \A k \in 1..Len(ret.args_r) :
              ret.args_r[k] # "function" /\ ~startswith(ret.args_r[k], "function=")

\* the parts of a literal's argument list: split at ", " outside parentheses
parenDepth(s, i) ==
    Cardinality({j \in 1..(i - 1) : Ch(s, j) = "("})
    - Cardinality({j \in 1..(i - 1) : Ch(s, j) = ")"})

RECURSIVE topSplit(_)
topSplit(s) ==
    LET seps == {i \in 1..Len(s) : /\ SubSeq(s, i, Min({i + 1, Len(s)})) = ", "
                                   /\ parenDepth(s, i) = 0}
    IN  IF seps = {} THEN <<s>>
        ELSE <<SubSeq(s, 1, Min(seps) - 1)>> \o topSplit(rest(s, Min(seps) + 2))

topParts(s) == IF s = "" THEN <<>> ELSE topSplit(s)

\* C5: to_r turns a sequence of N elements into 'c(' + the N converted
\* elements joined by ', ' + ')', a dict into 'list(...)' with one
\* `key`=<converted value> entry per key, None into 'NULL', anything else into
\* its repr; {"k": [1, 2]} gives list(`k`=c(1, 2)).
C5_StructurePreserving ==
    fn = "to_r" =>
        /\ arg.t \in {"list", "tuple"} =>
              /\ startswith(ret, "c(")
              /\ endswith(ret, ")")
              /\ topParts(SubSeq(ret, 3, Len(ret) - 1))
                    = [i \in 1..Len(arg.v) |-> to_r(arg.v[i])]
        /\ arg.t = "dict" =>
              /\ startswith(ret, "list(")
              /\ endswith(ret, ")")
              /\ topParts(SubSeq(ret, 6, Len(ret) - 1))
                    = [i \in 1..Len(arg.v) |->
                          Backtick \o (IF arg.v[i][1].t = "str"
                                       THEN arg.v[i][1].v
                                       ELSE "1")
                          \o Backtick \o "=" \o to_r(arg.v[i][2])]
        /\ arg.t = "none" => ret = "NULL"
        /\ arg.t = "int" => ret = (IF arg.v = 1 THEN "1" ELSE "2")
        /\ arg.t = "str" => ret = "'" \o arg.v \o "'"
        /\ arg = PyDict(<<(<<PyStr("k"), PyList(<<PyInt(1), PyInt(2)>>)>>)>>)
              => ret = "list(" \o Backtick \o "k" \o Backtick \o "=c(1, 2))"

\* a list of two elements, the second of them the dict {"k": [1, 2]}
C5_Witness ==
    /\ fn = "to_r"
    /\ arg.t = "list"
    /\ Len(arg.v) = 2
    /\ arg.v[2].t = "dict"
    /\ Len(arg.v[2].v) = 1
    /\ arg.v[2].v[1][2].t = "list"
    /\ ret = "c(NULL, list(" \o Backtick \o "k" \o Backtick \o "=c(1, 2)))"

\* the lines of a section without its leading and trailing blank lines
trimmed(lines) ==
    LET filled == {i \in 1..Len(lines) : lines[i] # ""}
    IN  IF filled = {} THEN <<>>
        ELSE SubSeq(lines,
                    CHOOSE i \in filled : \A j \in filled : i <= j,
                    CHOOSE i \in filled : \A j \in filled : j <= i)

inIgnoreSet(heading) ==
    \E prefix \in {"DESCRIPTION", "USAGE", "PYMOL API", "EXAMPLE"} :
        startswith(heading, prefix)

\* C9: the document docstring_to_rd returns starts with a name, an alias, a
\* title, a description and a usage block, in this order, and holds exactly one
\* description block and one usage block; the description block carries the
\* trimmed lines of the heading 'DESCRIPTION' if there is one and the 'not
\* described' placeholder otherwise; no heading that begins with DESCRIPTION,
\* USAGE, PYMOL API or EXAMPLE is emitted as a further section.
C9_FixedBlocks ==
    fn = "docstring_to_rd" =>
        LET name == arg.cmd_name
            sections == arg.sections
            described == {i \in 1..Len(sections) : sections[i][1] = <<"DESCRIPTION">>}
            description ==
                IF described = {}
                THEN "\\description{Not described by PyMol.}"
                ELSE "\\description{\n"
                     \o join("\n", trimmed(sections[CHOOSE i \in described : TRUE][2]))
                     \o "\n}\n"
            generic == {i \in 1..Len(sections) :
                           /\ trimmed(sections[i][2]) # <<>>
                           /\ sections[i][1] = <<>>
                              \/ /\ sections[i][1][1] \notin {"NOTES", "ARGUMENTS", "SEE ALSO"}
                                 /\ ~inIgnoreSet(sections[i][1][1])}
        IN  /\ startswith(ret,
                   "\\name{" \o name \o "}\n"
                   \o "\\alias{Pymol$" \o name \o "}\n"
                   \o "\\title{Execute PyMol '" \o name \o "' command}\n"
                   \o description \o "\n"
                   \o "\\usage{\n")
            /\ count(ret, "\\description{") = 1
            /\ count(ret, "\\usage{") = 1
            /\ count(ret, "\\section{") = Cardinality(generic)
            /\ \A i \in 1..Len(sections) :
                  (sections[i][1] # <<>> /\ inIgnoreSet(sections[i][1][1])) =>
                      ~contains(ret, "\\section{" \o title(strip(sections[i][1][1])) \o "}{")

\* a docstring with a filled section 'DESCRIPTION OF X' and a filled generic one
C9_Witness ==
    /\ fn = "docstring_to_rd"
    /\ \E i \in 1..Len(arg.sections) :
          /\ arg.sections[i][1] = <<"DESCRIPTION OF X">>
          /\ trimmed(arg.sections[i][2]) # <<>>
    /\ contains(ret, "\\section{Other Notes}{\n\\usage\\{zoom, orient\\}\n}")
    /\ contains(ret, "(a, b=1, \\dots)")

\* the entry C10 describes for a paragraph, read off its first line
C10_entry(paragraph) ==
    LET cut == find(paragraph, "\n", 1)
        line == IF cut = 0 THEN paragraph ELSE SubSeq(paragraph, 1, cut - 1)
        more == IF cut = 0 THEN "" ELSE rest(paragraph, cut)
    IN  IF line = "x = int: the x value" THEN "\\item{x}{the x value" \o more \o "}"
        ELSE IF line = "y = the y" THEN "\\item{y}{the y" \o more \o "}"
        ELSE IF line = "z < 5: zoom" THEN "\\item{z}{zoom" \o more \o "}"
        ELSE "\\item{Extra (from PyMol help text)}{" \o paragraph \o "}"

\* C10: an ARGUMENTS section whose trimmed body splits into k paragraphs at
\* blank lines gives k entries, in paragraph order, inside one arguments
\* block; the first of the patterns 'name = type: description', 'name =
\* description', 'name <op> value: description' that matches a paragraph gives
\* the entry its name and description, a paragraph that matches none gives an
\* 'Extra' entry that carries it whole.  'x = int: the x value' alone gives one
\* entry 'x' with the body 'the x value'.
C10_ArgumentEntries ==
    (fn = "docstring_to_rd" /\ \E i \in 1..Len(arg.sections) :
                                   /\ arg.sections[i][1] = <<"ARGUMENTS">>
                                   /\ trimmed(arg.sections[i][2]) # <<>>) =>
        LET lines == arg.sections[CHOOSE i \in 1..Len(arg.sections) :
                                      arg.sections[i][1] = <<"ARGUMENTS">>][2]
            body == join("\n", trimmed(lines))
            k == 1 + count(body, "\n\n")
            paragraphs == split(body, "\n\n")
        IN  /\ Len(paragraphs) = k
            /\ count(ret, "\\item{") = k
            /\ count(ret, "\\arguments{") = 1
            /\ contains(ret,
                   "\n\\arguments{\n"
                   \o join("\n", [n \in 1..k |-> C10_entry(paragraphs[n])])
                   \o "\n}")
            /\ body = "x = int: the x value" =>
                  endswith(ret, "\n\\arguments{\n\\item{x}{the x value}\n}")

\* two paragraphs: one of the typed shape, one that matches no pattern
C10_Witness ==
    /\ fn = "docstring_to_rd"
    /\ contains(ret, "\\arguments{\n\\item{x}{the x value}\n\\item{Extra (from PyMol help text)}{just text}\n}")

\* what C6 says of the command name of a finished run; a document is expected
\* for a docstring that is not None and, if nonEmpty, not the empty string
C6_holdsFor(name, nonEmpty) ==
    LET callable == cmds[name]
        skipped == Ch(name, 1) = "_" \/ callable.id = "python_help"
        documented == /\ callable.doc # <<>>
                      /\ nonEmpty => callable.doc # <<"">>
        written == ("man/Pymol-method-" \o name \o ".Rd") \in DOMAIN man
        own == {k \in 1..Len(methods) : startswith(methods[k], name \o "=function(")}
    IN  /\ written <=> (~skipped /\ documented)
        /\ (~skipped /\ callable.doc = <<>>) =>
              /\ Cardinality(own) = 1
              /\ \A k \in own : contains(methods[k], "'PyMol \\'" \o name \o "\\' method'")
              /\ ~written
        /\ skipped => (own = {} /\ ~written)
        /\ ~skipped => Cardinality(own) = 1

\* C6 as stated: after a generation run a reference document exists for a
\* command iff the command is not skipped and had a non-empty docstring; a
\* command without docstring has exactly one method, with the generic
\* summary, and no document; a skipped command has neither.
C6_DocumentIffNonEmptyDocstring ==
    pc = "done" => \A name \in DOMAIN cmds : C6_holdsFor(name, TRUE)

\* C6, amended: a reference document exists for a command iff the command is
\* not skipped and has a docstring (one that is not None), be it the empty
\* string; the rest as stated.
C6_DocumentIffDocstring ==
    /\ pc = "done" => \A name \in DOMAIN cmds : C6_holdsFor(name, FALSE)
    /\ pc = "done" =>
          Len(methods) = Cardinality({name \in DOMAIN cmds :
                                         ~isSkipped(name, cmds[name])})

\* a finished run with a command whose docstring is empty, one without
\* docstring and a skipped one
C6_Witness ==
    /\ pc = "done"
    /\ \E a, b, c \in DOMAIN cmds :
          /\ cmds[a].doc = <<"">>
          /\ Ch(a, 1) # "_"
          /\ cmds[b].doc = <<>>
          /\ Ch(b, 1) # "_"
          /\ Ch(c, 1) = "_"
    /\ Len(methods) = 2
    /\ Cardinality(DOMAIN man) = 1

\* the target C7 names for a method: the keyword table, then the cmd
\* namespace, then a module-qualified name
C7_target(method) ==
    IF method \in DOMAIN command_keywords THEN command_keywords[method]
    ELSE IF method \in DOMAIN cmd_attrs THEN cmd_attrs[method]
    ELSE IF \E m \in DOMAIN MODULES : /\ startswith(method, m \o ".")
                                      /\ rest(method, Len(m) + 2) \in DOMAIN MODULES[m]
    THEN LET m == CHOOSE m \in DOMAIN MODULES :
                      /\ startswith(method, m \o ".")
                      /\ rest(method, Len(m) + 2) \in DOMAIN MODULES[m]
         IN  MODULES[m][rest(method, Len(m) + 2)]
    ELSE NoFunc

\* C7: for a method other than 'ping', _dispatch calls the first target found
\* in the keyword table, the cmd namespace and the 'util.'/'preset.' names,
\* with the dict parameters merged into the keyword arguments and the other
\* parameters as positional arguments in their order; without a callable
\* target it raises a ValueError that names the method and calls nothing;
\* else it returns the result, -1 standing for an absent (None) result.
C7_DispatchContract ==
    (request # <<>> /\ reply.kind # "none" /\ request[1].method # "ping") =>
        LET method == request[1].method
            params == request[1].params
            target == C7_target(method)
            dicts == {i \in 1..Len(params) : params[i].t = "dict"}
            keysOf(i) == {params[i].v[k][1] : k \in 1..Len(params[i].v)}
            valueOf(i, key) ==
                params[i].v[CHOOSE k \in 1..Len(params[i].v) : params[i].v[k][1] = key][2]
            keys == UNION {keysOf(i) : i \in dicts}
            lastWith(key) == Max({i \in dicts : key \in keysOf(i)})
        IN  IF ~target.callable
            THEN /\ reply.kind = "raise"
                 /\ reply.exc = "ValueError"
                 /\ contains(reply.value.v, method)
                 /\ invoked = <<>>
            ELSE /\ Len(invoked) = 1
                 /\ invoked[1].func = target.id
                 /\ invoked[1].args = SelectSeq(params, LAMBDA x : x.t # "dict")
                 /\ Len(invoked[1].kwargs) = Cardinality(keys)
                 /\ \A key \in keys :
                       odGet(invoked[1].kwargs, key) = valueOf(lastWith(key), key)
                 /\ reply.kind = "return"
                 /\ reply.value = IF invoked[1].result.t = "none"
                                  THEN PyInt(-1)
                                  ELSE invoked[1].result

====
